---- MODULE Spec2Model ----
(***************************************************************************)
(* Model of main.go: the HTTP handlers (sendMessage, getMessages,          *)
(* markMessageAsDelivered, markMessageAsRead, deleteMessage, /stop-redis), *)
(* the Redis stream "message_stream" with its consumer group               *)
(* "message_group", the worker goroutine startWorker, and the PostgreSQL   *)
(* table "messages" reached through the one global connection conn.        *)
(*                                                                         *)
(* Every statement sent over conn is one atomic step.  Because there is a  *)
(* single session, a statement issued by a handler while the worker's      *)
(* transaction is open executes inside that transaction.                   *)
(* The timestamp field is carried verbatim from the request time to the    *)
(* row and influences no control flow; it is left out of the records.      *)
(***************************************************************************)
EXTENDS Integers, Sequences, FiniteSets, TLC

\* ---------------------------------------------------------------- bounds
MaxMsgs == 2          \* number of uuid.New() calls (XAdd attempts) explored
MaxFaults == 1        \* number of failed XAdd, Begin, INSERT, UPDATE, COMMIT
                      \* and XAck calls
MaxTouched == 1       \* number of rows that handlers modify or delete

\* Request bodies of POST /messages: a valid one and one for each empty
\* field.
Msg(s, r, c) == [sender_id |-> s, receiver_id |-> r, content |-> c]
MsgInputs == {Msg("u1", "u2", "hi"),
              Msg("", "u2", "hi"), Msg("u1", "", "hi"), Msg("u1", "u2", "")}

\* Query parameters <<user1, user2>> of GET /messages.
QueryInputs == {<<"u1", "u2">>, <<"u2", "u1">>, <<"u1", "u3">>,
                <<"", "u2">>, <<"u1", "">>}

\* ------------------------------------------------------------ identifiers
\* Redis stream entry ids ("<ms>-<seq>") and UUID strings are distinct
\* kinds of string; n is the position of the entry in the stream.
StreamId(n) == <<"stream", n>>
NewUuid(k) == <<"uuid", k>>
EmptyId == <<"", 0>>

StreamIds == {StreamId(n) : n \in 1..MaxMsgs}
Uuids == {NewUuid(k) : k \in 1..MaxMsgs}
\* The :id path parameter: an entry id, or empty (markMessageAsRead checks
\* for the empty one).  A failing statement is explored for one id.
IdInputs == StreamIds \cup {EmptyId}

VARIABLES
    log,            \* message_stream: sequence of entries
    nextUuid,       \* number of UUIDs generated so far
    failedIds,      \* history: UUIDs whose XAdd failed
    groupCreated,   \* message_group exists
    lastDelivered,  \* the group's last-delivered position
    pending,        \* the group's pending entries list (delivered, not acked)
    delivered,      \* history: ids returned by XReadGroup, in order
    pc,             \* position of the worker goroutine
    cur,            \* the entry the worker is processing
    quit,           \* the quit channel: "open" or "closed"
    stopLen,        \* history: length of the stream when quit was closed
    db,             \* committed rows of table messages
    txOpen,         \* the session on conn is inside BEGIN .. COMMIT
    txdb,           \* the table as seen inside the open transaction
    resp,           \* HTTP response produced by the last step, if any
    wlog,           \* worker log line produced by the last step, if any
    failed,         \* history: ids whose persistence failed
    touched,        \* history: ids whose row a handler modified or deleted
    deleted         \* history: ids whose DELETE was answered 200

vars == <<log, nextUuid, failedIds, groupCreated, lastDelivered, pending,
          delivered, pc, cur, quit, stopLen, db, txOpen, txdb, resp, wlog,
          failed, touched, deleted>>

redisVars == <<log, nextUuid, failedIds, groupCreated, lastDelivered,
               pending, delivered>>
storeVars == <<db, txOpen, txdb>>
workerVars == <<pc, cur, failed>>

\* The entry the worker is processing, if any.
InCycle == pc \in {"begin", "insert", "update", "commit", "ack"}

\* Entries whose XAck failed: delivered, persisted, cycle over, still pending.
AckFailed ==
    {id \in pending \ failed : ~(InCycle /\ cur.id = id)}

\* A call fails: one more of the failures the model explores.
Fault ==
    Cardinality(failed) + Cardinality(failedIds) + Cardinality(AckFailed)
        < MaxFaults

\* ----------------------------------------------------------------- records
NoEntry == [id |-> EmptyId, message_id |-> EmptyId, sender_id |-> "",
            receiver_id |-> "", content |-> "", read |-> FALSE, status |-> ""]

NoResp == [op |-> "", code |-> 0, id |-> EmptyId, rows |-> 0, body |-> {},
           req |-> Msg("", "", "")]

NoLog == [msg |-> "", id |-> EmptyId]

Resp(op, code, id, rows, body) ==
    [NoResp EXCEPT !.op = op, !.code = code, !.id = id, !.rows = rows,
                   !.body = body]

\* The Message struct as JSON: getMessages scans six columns, the Status
\* field keeps its zero value.
Message(r) == [message_id |-> r.message_id, sender_id |-> r.sender_id,
               receiver_id |-> r.receiver_id, content |-> r.content,
               read |-> r.read, status |-> ""]

\* ------------------------------------------------------------------ store
\* The table the next statement on conn operates on.
View == IF txOpen THEN txdb ELSE db

RowsOf(t, id) == {r \in t : r.message_id = id}

\* INSERT INTO messages (...) VALUES (messageID, ..., false, status)
InsertRow(id, e) == [message_id |-> id, sender_id |-> e.sender_id,
                     receiver_id |-> e.receiver_id, content |-> e.content,
                     read |-> FALSE, status |-> e.status]

\* UPDATE messages SET status = 'delivered' WHERE message_id = $1
UpdateDeliveredSkip(t, id) == t
UpdateDelivered(t, id) ==
    {IF r.message_id = id THEN [r EXCEPT !.status = "delivered"] ELSE r
       : r \in t}

\* UPDATE messages SET status = 'delivered'
\*   WHERE message_id = $2 AND status = 'sent'
UpdateDeliveredAlways(t, id) ==
    {IF r.message_id = id THEN [r EXCEPT !.status = "delivered"] ELSE r
       : r \in t}
UpdateDeliveredIfSent(t, id) ==
    {IF r.message_id = id /\ r.status = "sent"
       THEN [r EXCEPT !.status = "delivered"] ELSE r : r \in t}

\* UPDATE messages SET read = TRUE, status = 'read' WHERE message_id = $1
UpdateReadOrCreate(t, id) ==
    IF RowsOf(t, id) = {}
      THEN t \cup {[message_id |-> id, sender_id |-> "", receiver_id |-> "",
                    content |-> "", read |-> TRUE, status |-> "read"]}
      ELSE {IF r.message_id = id
              THEN [r EXCEPT !.read = TRUE, !.status = "read"] ELSE r
              : r \in t}
UpdateRead(t, id) ==
    {IF r.message_id = id THEN [r EXCEPT !.read = TRUE, !.status = "read"]
       ELSE r : r \in t}

\* DELETE FROM messages WHERE message_id = $1
DeleteRow(t, id) == {r \in t : r.message_id # id}

\* SELECT ... WHERE (sender_id = $1 AND receiver_id = $2)
\*               OR (sender_id = $2 AND receiver_id = $1)
Conversation(t, user1, user2) ==
    {r \in t : \/ r.sender_id = user1 /\ r.receiver_id = user2
               \/ r.sender_id = user2 /\ r.receiver_id = user1}

\* tx.Rollback: the committed table is what remains.
TxRollbackKeeps(committed, working) == working
TxRollback(committed, working) == committed

\* The rows a handler's statement hits are marked as touched.
Touch(hit, id) ==
    /\ hit # {} => id \in touched \/ Cardinality(touched) < MaxTouched
    /\ touched' = IF hit # {} THEN touched \cup {id} ELSE touched

\* A statement of a handler, executed on conn in autocommit mode or inside
\* the transaction the session is in.
HandlerExec(newView) ==
    /\ txOpen' = txOpen
    /\ IF txOpen THEN txdb' = newView /\ db' = db
                 ELSE db' = newView /\ txdb' = txdb

\* ---------------------------------------------------------------- handlers
Alive == pc # "exited"       \* log.Fatalf in the worker exits the process

\* A handler runs as one step: its statement on conn (or its Redis call) and
\* the response it computes.  resp holds that response until it is written
\* (ResponseSent) or the worker takes its next step; the next request is
\* taken up after that, which loses no interleaving of the statements.
ServingWhileWorkerRuns == Alive /\ resp = NoResp /\ pc # "stopped"
Serving == Alive /\ resp = NoResp

ResponseSent ==
    /\ resp # NoResp
    /\ resp' = NoResp
    /\ UNCHANGED <<redisVars, storeVars, workerVars, quit, stopLen, touched,
                   deleted, wlog>>

\* msg.SenderID == "" || msg.ReceiverID == "" || msg.Content == ""
ValidMessageNoContent(msg) == msg.sender_id # "" /\ msg.receiver_id # ""
ValidMessage(msg) ==
    msg.sender_id # "" /\ msg.receiver_id # "" /\ msg.content # ""

\* The entry XAdd appends: Redis assigns the entry id, Values carries the
\* generated UUID under "message_id".
XAddValuesDelivered(n, id, msg) ==
    [id |-> StreamId(n), message_id |-> id, sender_id |-> msg.sender_id,
     receiver_id |-> msg.receiver_id, content |-> msg.content,
     read |-> FALSE, status |-> "delivered"]
XAddValues(n, id, msg) ==
    [id |-> StreamId(n), message_id |-> id, sender_id |-> msg.sender_id,
     receiver_id |-> msg.receiver_id, content |-> msg.content,
     read |-> FALSE, status |-> "sent"]

\* The stream after XAdd returned an error: sendMessage returns 500 and
\* does not call XAdd again.
OnAppendErrorRetry(l, e) == Append(l, e)
OnAppendError(l, e) == l

sendMessage(bindOk, msg, xaddOk) ==
    /\ Serving
    /\ IF ~bindOk \/ ~ValidMessage(msg)
         THEN /\ resp' = [Resp("sendMessage", 400, EmptyId, 0, {}) EXCEPT
                            !.req = IF bindOk THEN msg ELSE NoResp.req]
              /\ UNCHANGED <<log, nextUuid, failedIds>>
         ELSE /\ nextUuid < MaxMsgs
              /\ xaddOk \/ Fault
              /\ LET id == NewUuid(nextUuid + 1)
                     e == XAddValues(Len(log) + 1, id, msg)
                 IN  /\ nextUuid' = nextUuid + 1
                     /\ log' = IF xaddOk THEN Append(log, e)
                                         ELSE OnAppendError(log, e)
                     /\ failedIds' = IF xaddOk THEN failedIds
                                               ELSE failedIds \cup {id}
                     /\ resp' = [Resp("sendMessage",
                                      IF xaddOk THEN 200 ELSE 500, id, 0, {})
                                   EXCEPT !.req = msg]
    /\ wlog' = NoLog
    /\ UNCHANGED <<groupCreated, lastDelivered, pending, delivered,
                   storeVars, workerVars, quit, stopLen, touched, deleted>>

getMessages(user1, user2, ok) ==
    /\ Serving
    /\ resp' = IF user1 = "" \/ user2 = ""
                 THEN Resp("getMessages", 400, EmptyId, 0, {})
               ELSE IF ~ok
                 THEN Resp("getMessages", 500, EmptyId, 0, {})
               ELSE Resp("getMessages", 200, EmptyId, 0,
                         {Message(r) : r \in Conversation(View, user1, user2)})
    /\ wlog' = NoLog
    /\ UNCHANGED <<redisVars, storeVars, workerVars, quit, stopLen, touched,
                   deleted>>

markMessageAsDelivered(id, ok) ==
    /\ Serving
    /\ LET hit == {r \in RowsOf(View, id) : r.status = "sent"} IN
       IF ~ok
         THEN /\ resp' = Resp("markMessageAsDelivered", 500, id, 0, {})
              /\ UNCHANGED <<storeVars, touched, deleted>>
         ELSE /\ HandlerExec(UpdateDeliveredIfSent(View, id))
              /\ resp' = Resp("markMessageAsDelivered", 200, id,
                              Cardinality(hit), {})
              /\ Touch(hit, id)
              /\ deleted' = deleted
    /\ wlog' = NoLog
    /\ UNCHANGED <<redisVars, workerVars, quit, stopLen>>

markMessageAsRead(id, ok) ==
    /\ Serving
    /\ LET hit == RowsOf(View, id) IN
       IF id = EmptyId
         THEN /\ resp' = Resp("markMessageAsRead", 400, id, 0, {})
              /\ UNCHANGED <<storeVars, touched, deleted>>
       ELSE IF ~ok
         THEN /\ resp' = Resp("markMessageAsRead", 500, id, 0, {})
              /\ UNCHANGED <<storeVars, touched, deleted>>
       ELSE /\ HandlerExec(UpdateRead(View, id))
            /\ resp' = Resp("markMessageAsRead",
                            IF hit = {} THEN 404 ELSE 200, id,
                            Cardinality(hit), {})
            /\ Touch(hit, id)
            /\ deleted' = deleted
    /\ wlog' = NoLog
    /\ UNCHANGED <<redisVars, workerVars, quit, stopLen>>

deleteMessage(id, ok) ==
    /\ Serving
    /\ LET hit == RowsOf(View, id) IN
       IF ~ok
         THEN /\ resp' = Resp("deleteMessage", 500, id, 0, {})
              /\ UNCHANGED <<storeVars, touched, deleted>>
         ELSE /\ HandlerExec(DeleteRow(View, id))
              /\ resp' = Resp("deleteMessage",
                              IF hit = {} THEN 404 ELSE 200, id,
                              Cardinality(hit), {})
              /\ Touch(hit, id)
              /\ deleted' = IF hit # {} THEN deleted \cup {id} ELSE deleted
    /\ wlog' = NoLog
    /\ UNCHANGED <<redisVars, workerVars, quit, stopLen>>

\* POST /stop-redis: stopWorker() is close(quit); closing a closed channel
\* panics, net/http recovers the panic and sends no response (code 0).
stopWorker ==
    /\ Serving
    /\ IF quit = "open"
         THEN /\ quit' = "closed"
              /\ stopLen' = Len(log)
              /\ resp' = Resp("stopWorker", 200, EmptyId, 0, {})
         ELSE /\ UNCHANGED <<quit, stopLen>>
              /\ resp' = Resp("stopWorker", 0, EmptyId, 0, {})
    /\ wlog' = NoLog
    /\ UNCHANGED <<redisVars, storeVars, workerVars, touched, deleted>>

\* ------------------------------------------------------------------ worker
WLog(m, id) == [msg |-> m, id |-> id]

\* XGroupCreateMkStream(ctx, "message_stream", "message_group", "$")
XGroupCreateAtEnd(ok) ==
    /\ pc = "start"
    /\ IF ~ok
         THEN /\ pc' = "exited"
              /\ wlog' = WLog("Failed to create consumer group", EmptyId)
              /\ UNCHANGED <<groupCreated, lastDelivered>>
         ELSE /\ pc' = "select"
              /\ wlog' = WLog("Starting Redis stream worker...", EmptyId)
              /\ groupCreated' = TRUE
              /\ lastDelivered' = Len(log)
    /\ resp' = NoResp
    /\ UNCHANGED <<log, nextUuid, failedIds, pending, delivered, cur, failed,
                   quit, stopLen, storeVars, touched, deleted>>
XGroupCreateMkStream(ok) ==
    /\ pc = "start"
    /\ IF ~ok
         THEN \* an error other than BUSYGROUP: log.Fatalf
              /\ pc' = "exited"
              /\ wlog' = WLog("Failed to create consumer group", EmptyId)
              /\ UNCHANGED <<groupCreated, lastDelivered>>
         ELSE /\ pc' = "select"
              /\ wlog' = WLog("Starting Redis stream worker...", EmptyId)
              /\ groupCreated' = TRUE
              /\ lastDelivered' = IF groupCreated THEN lastDelivered
                                                  ELSE Len(log)
    /\ resp' = NoResp
    /\ UNCHANGED <<log, nextUuid, failedIds, pending, delivered, cur, failed,
                   quit, stopLen, storeVars, touched, deleted>>

\* select { case <-quit: return; default: ... }
SelectAtEveryStep ==
    /\ pc \in {"select", "begin", "insert", "update", "commit", "ack"}
    /\ IF quit = "closed"
         THEN pc' = "stopped" /\ wlog' = WLog("Stopping Redis stream worker...", EmptyId)
         ELSE pc = "select" /\ pc' = "read" /\ wlog' = NoLog
    /\ resp' = NoResp
    /\ UNCHANGED <<redisVars, cur, failed, quit, stopLen, storeVars, touched,
                   deleted>>
Select ==
    /\ pc = "select"
    /\ IF quit = "closed"
         THEN pc' = "stopped" /\ wlog' = WLog("Stopping Redis stream worker...", EmptyId)
         ELSE pc' = "read" /\ wlog' = NoLog
    /\ resp' = NoResp
    /\ UNCHANGED <<redisVars, cur, failed, quit, stopLen, storeVars, touched,
                   deleted>>

\* XReadGroup(Group, Consumer, Streams: {"message_stream", ">"},
\*            Block: 0, Count: 1): the next never-delivered entry.
NextNewOrPending(l, last, pend) ==
    LET old == {n \in DOMAIN l : l[n].id \in pend} IN
      IF old # {} THEN CHOOSE n \in old : \A m \in old : n <= m
                  ELSE last + 1
NextFromLastAgain(l, last, pend) == IF last >= 1 THEN last ELSE last + 1
NextNew(l, last, pend) == last + 1

XReadGroupOk ==
    /\ pc = "read"
    /\ groupCreated
    /\ LET n == NextNew(log, lastDelivered, pending) IN
         /\ n <= Len(log)
         /\ lastDelivered' = IF n > lastDelivered THEN n ELSE lastDelivered
         /\ pending' = pending \cup {log[n].id}
         /\ delivered' = Append(delivered, log[n].id)
         /\ cur' = log[n]
    /\ pc' = "begin"
    /\ wlog' = NoLog
    /\ resp' = NoResp
    /\ UNCHANGED <<log, nextUuid, failedIds, groupCreated, failed, quit,
                   stopLen, storeVars, touched, deleted>>

XReadGroupErr ==
    /\ pc = "read"
    /\ pc' = "select"
    /\ wlog' = WLog("Failed to read from stream", EmptyId)
    /\ resp' = NoResp
    /\ UNCHANGED <<redisVars, cur, failed, quit, stopLen, storeVars, touched,
                   deleted>>

\* messageID := message.ID
MessageID(e) == e.id

\* The failure branches: log the error and continue with the next poll.
PersistFailedReturns(m) ==
    /\ pc' = "stopped"
    /\ wlog' = WLog(m, MessageID(cur))
    /\ failed' = failed \cup {MessageID(cur)}
PersistFailedNoContinue(m) ==
    /\ pc' = "ack"
    /\ wlog' = WLog(m, MessageID(cur))
    /\ failed' = failed \cup {MessageID(cur)}
PersistFailed(m) ==
    /\ pc' = "select"
    /\ wlog' = WLog(m, MessageID(cur))
    /\ failed' = failed \cup {MessageID(cur)}

\* tx, err := conn.Begin(context.Background())
Begin(ok) ==
    /\ pc = "begin"
    /\ ok \/ Fault
    /\ IF ok
         THEN /\ txOpen' = TRUE
              /\ txdb' = db
              /\ pc' = "insert"
              /\ wlog' = NoLog
              /\ failed' = failed
         ELSE /\ PersistFailed("Failed to start transaction")
              /\ UNCHANGED <<txOpen, txdb>>
    /\ resp' = NoResp
    /\ UNCHANGED <<redisVars, cur, quit, stopLen, db, touched, deleted>>

\* tx.Exec(INSERT ...); on error tx.Rollback
Insert(ok) ==
    /\ pc = "insert"
    /\ ok \/ Fault
    /\ LET row == InsertRow(MessageID(cur), cur) IN
       IF ok /\ RowsOf(txdb, row.message_id) = {}
         THEN /\ txdb' = txdb \cup {row}
              /\ pc' = "update"
              /\ wlog' = WLog("Message inserted into DB", row.message_id)
              /\ UNCHANGED <<db, txOpen, failed>>
         ELSE /\ db' = TxRollback(db, txdb)
              /\ txdb' = {}
              /\ txOpen' = FALSE
              /\ PersistFailed("Failed to insert message")
    /\ resp' = NoResp
    /\ UNCHANGED <<redisVars, cur, quit, stopLen, touched, deleted>>

\* tx.Exec(UPDATE ... SET status = 'delivered'); on error tx.Rollback
Update(ok) ==
    /\ pc = "update"
    /\ ok \/ Fault
    /\ IF ok
         THEN /\ txdb' = UpdateDelivered(txdb, MessageID(cur))
              /\ pc' = "commit"
              /\ wlog' = WLog("Message status updated to 'delivered'",
                              MessageID(cur))
              /\ UNCHANGED <<db, txOpen, failed>>
         ELSE /\ db' = TxRollback(db, txdb)
              /\ txdb' = {}
              /\ txOpen' = FALSE
              /\ PersistFailed("Failed to update message status to 'delivered'")
    /\ resp' = NoResp
    /\ UNCHANGED <<redisVars, cur, quit, stopLen, touched, deleted>>

\* tx.Commit: on error the transaction is over and nothing of it is kept.
Commit(ok) ==
    /\ pc = "commit"
    /\ ok \/ Fault
    /\ txOpen' = FALSE
    /\ txdb' = {}
    /\ IF ok
         THEN /\ db' = txdb
              /\ pc' = "ack"
              /\ wlog' = NoLog
              /\ failed' = failed
         ELSE /\ db' = db
              /\ PersistFailed("Failed to commit transaction")
    /\ resp' = NoResp
    /\ UNCHANGED <<redisVars, cur, quit, stopLen, touched, deleted>>

\* XAck(ctx, "message_stream", "message_group", messageID)
XAckOrCompensate(ok) ==
    /\ pc = "ack"
    /\ ok \/ Fault
    /\ pc' = "select"
    /\ IF ok
         THEN /\ pending' = pending \ {MessageID(cur)}
              /\ wlog' = WLog("Message ACKed", MessageID(cur))
              /\ UNCHANGED storeVars
         ELSE /\ pending' = pending
              /\ wlog' = WLog("Failed to ACK message", MessageID(cur))
              /\ db' = DeleteRow(db, MessageID(cur))
              /\ UNCHANGED <<txOpen, txdb>>
    /\ resp' = NoResp
    /\ UNCHANGED <<log, nextUuid, failedIds, groupCreated, lastDelivered,
                   delivered, cur, failed, quit, stopLen, touched, deleted>>
XAck(ok) ==
    /\ pc = "ack"
    /\ ok \/ Fault
    /\ pc' = "select"
    /\ IF ok
         THEN /\ pending' = pending \ {MessageID(cur)}
              /\ wlog' = WLog("Message ACKed", MessageID(cur))
         ELSE /\ pending' = pending
              /\ wlog' = WLog("Failed to ACK message", MessageID(cur))
    /\ resp' = NoResp
    /\ UNCHANGED <<log, nextUuid, failedIds, groupCreated, lastDelivered,
                   delivered, cur, failed, quit, stopLen, storeVars, touched,
                   deleted>>

\* ------------------------------------------------------------ specification
Init ==
    /\ log = << >>
    /\ nextUuid = 0
    /\ failedIds = {}
    /\ groupCreated \in BOOLEAN      \* the group may survive from an earlier run
    /\ lastDelivered = 0
    /\ pending = {}
    /\ delivered = << >>
    /\ pc = "start"
    /\ cur = NoEntry
    /\ quit = "open"
    /\ stopLen = 0
    /\ db = {}
    /\ txOpen = FALSE
    /\ txdb = {}
    /\ resp = NoResp
    /\ wlog = NoLog
    /\ failed = {}
    /\ touched = {}
    /\ deleted = {}

Next ==
    \/ \E msg \in MsgInputs : sendMessage(TRUE, msg, TRUE)
    \/ sendMessage(TRUE, Msg("u1", "u2", "hi"), FALSE)
    \/ sendMessage(FALSE, NoResp.req, TRUE)
    \/ \E q \in QueryInputs : getMessages(q[1], q[2], TRUE)
    \/ getMessages("u1", "u2", FALSE)
    \/ \E id \in StreamIds : markMessageAsDelivered(id, TRUE)
    \/ markMessageAsDelivered(StreamId(1), FALSE)
    \/ \E id \in IdInputs : markMessageAsRead(id, TRUE)
    \/ markMessageAsRead(StreamId(1), FALSE)
    \/ \E id \in StreamIds : deleteMessage(id, TRUE)
    \/ deleteMessage(StreamId(1), FALSE)
    \/ stopWorker
    \/ ResponseSent
    \/ \E ok \in BOOLEAN : XGroupCreateMkStream(ok)
    \/ Select
    \/ XReadGroupOk
    \/ XReadGroupErr
    \/ \E ok \in BOOLEAN : Begin(ok)
    \/ \E ok \in BOOLEAN : Insert(ok)
    \/ \E ok \in BOOLEAN : Update(ok)
    \/ \E ok \in BOOLEAN : Commit(ok)
    \/ \E ok \in BOOLEAN : XAck(ok)

Spec == Init /\ [][Next]_vars

\* The Go scheduler runs the worker goroutine; only steps that do not depend
\* on a failure of Redis or PostgreSQL are assumed to happen.
FairSpec ==
    /\ Spec
    /\ WF_vars(XGroupCreateMkStream(TRUE))
    /\ WF_vars(Select)
    /\ SF_vars(XReadGroupOk)
    /\ SF_vars(Begin(TRUE))
    /\ SF_vars(Insert(TRUE))
    /\ SF_vars(Update(TRUE))
    /\ SF_vars(Commit(TRUE))
    /\ SF_vars(XAck(TRUE))
    \* a read error is transient: XReadGroup does not fail forever
    /\ <>[][~XReadGroupErr]_vars

\* The same scheduling assumption in its plain form: the worker goroutine
\* keeps running, so the statement it stands at is eventually executed, and
\* an XReadGroup for which an entry is waiting eventually returns it.
FairWorker ==
    /\ Spec
    /\ WF_vars(XGroupCreateMkStream(TRUE) \/ Select \/ Begin(TRUE)
                 \/ Insert(TRUE) \/ Update(TRUE) \/ Commit(TRUE)
                 \/ XAck(TRUE))
    /\ SF_vars(XReadGroupOk)

TypeOK ==
    /\ pc \in {"start", "select", "read", "begin", "insert", "update",
               "commit", "ack", "stopped", "exited"}
    /\ quit \in {"open", "closed"}
    /\ lastDelivered \in 0..Len(log)
    /\ txOpen \in BOOLEAN
    /\ ~txOpen => txdb = {}

\* ------------------------------------------------------------- properties
\* Number of times XReadGroup has returned the entry id.
Deliveries(id) == Cardinality({i \in DOMAIN delivered : delivered[i] = id})

EntryIds == {log[n].id : n \in DOMAIN log}

\* C1: an entry whose persistence failed (begin, insert, update or commit)
\* is eventually returned again by a later XReadGroup call of the polling
\* loop, as long as the loop runs (no stop was signalled and the worker
\* has not exited).
C1_FailedEntryRedelivered ==
    \A n \in 1..MaxMsgs :
        (StreamId(n) \in failed) ~>
            \/ Deliveries(StreamId(n)) >= 2
            \/ quit = "closed"
            \/ pc \in {"stopped", "exited"}

\* C2: once a step of the worker's unit of work has failed for an entry, no
\* row for that entry exists in the store, neither committed nor in the
\* session's view, and the entry stays unacknowledged.
C2_FailureLeavesNoRow ==
    \A id \in failed :
        /\ RowsOf(db, id) = {}
        /\ RowsOf(View, id) = {}
        /\ id \in pending

\* C2 witness: the update to 'delivered' failed after the insert had put a
\* row into the transaction.
C2_Witness ==
    /\ wlog.msg = "Failed to update message status to 'delivered'"
    /\ wlog.id \in failed
    /\ ~txOpen

\* The row an entry's cycle is meant to leave behind.
DeliveredUnread(id) ==
    \E r \in db : r.message_id = id /\ r.status = "delivered" /\ r.read = FALSE

\* C3 (as claimed): when a cycle ends with a successful acknowledge, a
\* committed row of the entry exists with status 'delivered', read = false,
\* and the entry is no longer pending.
C3_CycleLeavesDeliveredRow ==
    wlog.msg = "Message ACKed" =>
        DeliveredUnread(wlog.id) /\ wlog.id \notin pending

\* C3 (amended): the same, for an entry whose row no request handler has
\* modified or deleted before the cycle ended.
C3_UntouchedCycleLeavesDeliveredRow ==
    (wlog.msg = "Message ACKed" /\ wlog.id \notin touched) =>
        DeliveredUnread(wlog.id) /\ wlog.id \notin pending

C3_Witness ==
    /\ wlog.msg = "Message ACKed"
    /\ wlog.id \notin touched
    /\ DeliveredUnread(wlog.id)

\* C4: a handler neither returns nor modifies a row that is not committed,
\* and a row it returns is committed with a status other than 'sent'.
C4_HandlersSeeOnlyCommitted ==
    /\ (resp.op = "getMessages" /\ resp.code = 200) =>
          \A m \in resp.body :
              \E r \in db : r.message_id = m.message_id /\ r.status # "sent"
    /\ (resp.op \in {"markMessageAsRead", "markMessageAsDelivered",
                     "deleteMessage"} /\ resp.rows > 0 /\ txOpen) =>
          RowsOf(db, resp.id) # {}

\* C5: every POST /stop-redis returns 200.
C5_StopAlways200 ==
    resp.op = "stopWorker" => resp.code = 200

\* C6: once quit is closed, no row, committed or in the open transaction,
\* belongs to an entry appended after the stop.
C6_NoWriteAfterStop ==
    quit = "closed" =>
        \A n \in DOMAIN log :
            n > stopLen => RowsOf(db \cup txdb, log[n].id) = {}

\* C7: the message_id of every committed row is the identifier the producer
\* generated for a log entry (the entry's "message_id" field).
C7_RowKeyIsProducerId ==
    \A r \in db : \E n \in DOMAIN log : r.message_id = log[n].message_id

EmptyField(msg) ==
    msg.sender_id = "" \/ msg.receiver_id = "" \/ msg.content = ""

\* C8: a POST /messages whose sender_id, receiver_id or content is empty is
\* answered 400 and changes neither the stream nor the store.
C8_EmptyFieldRejected ==
    [][(resp'.op = "sendMessage" /\ EmptyField(resp'.req)) =>
          /\ resp'.code = 400
          /\ log' = log
          /\ UNCHANGED storeVars]_vars

C8_Witness ==
    /\ resp.op = "sendMessage"
    /\ resp.code = 400
    /\ resp.req = Msg("u1", "u2", "")
    /\ Len(log) > 0

\* C9: a POST /messages answered 200 appends exactly one entry with the
\* caller's sender_id, receiver_id and content, a message_id no earlier
\* entry carries, status 'sent' and read = false; the store is unchanged.
C9_SendAppendsOneEntry ==
    [][(resp'.op = "sendMessage" /\ resp'.code = 200) =>
          /\ Len(log') = Len(log) + 1
          /\ SubSeq(log', 1, Len(log)) = log
          /\ LET e == log'[Len(log')] IN
               /\ e.sender_id = resp'.req.sender_id
               /\ e.receiver_id = resp'.req.receiver_id
               /\ e.content = resp'.req.content
               /\ ~EmptyField(resp'.req)
               /\ e.message_id = resp'.id
               /\ \A n \in DOMAIN log : log[n].message_id # e.message_id
               /\ e.message_id \notin failedIds
               /\ e.status = "sent"
               /\ e.read = FALSE
          /\ UNCHANGED storeVars]_vars

C9_Witness ==
    /\ resp.op = "sendMessage"
    /\ resp.code = 200
    /\ Len(log) = 2
    /\ log[2].message_id = resp.id

\* C10: a failed XAdd is answered 500 and adds no entry; the message never
\* enters the stream later (no retry) and no row is ever created for it:
\* every row belongs to an entry of the stream.
C10_AppendErrorLosesMessage ==
    /\ [][(failedIds' # failedIds \/
           (resp'.op = "sendMessage" /\ resp'.code = 500)) =>
             /\ resp'.op = "sendMessage"
             /\ resp'.code = 500
             /\ failedIds' = failedIds \cup {resp'.id}
             /\ log' = log
             /\ UNCHANGED storeVars]_vars
    /\ [](/\ \A n \in DOMAIN log : log[n].message_id \notin failedIds
          /\ \A r \in db \cup txdb :
                /\ r.message_id \notin failedIds
                /\ r.message_id \in EntryIds)

C10_Witness ==
    /\ failedIds # {}
    /\ db # {}

\* Every row was inserted by the worker for an entry XReadGroup returned.
DeliveredIds == {delivered[i] : i \in DOMAIN delivered}

\* C11: while the process runs, whatever the worker's position (stopped,
\* blocked in XReadGroup, inside a cycle, after a failure), POST /messages
\* and GET /messages can be served; a POST answered 200 has touched neither
\* the store nor the worker, and its entry has no row; a stopped worker
\* stays stopped and reads nothing, so entries appended later stay without
\* a row.
C11_HandlersIndependentOfWorker ==
    /\ []((pc # "exited" /\ resp = NoResp) =>
            /\ nextUuid < MaxMsgs =>
                  ENABLED sendMessage(TRUE, Msg("u1", "u2", "hi"), TRUE)
            /\ ENABLED getMessages("u1", "u2", TRUE))
    /\ [][(resp'.op = "sendMessage" /\ resp'.code = 200) =>
             /\ UNCHANGED <<storeVars, workerVars, pending, delivered>>
             /\ RowsOf(db' \cup txdb', log'[Len(log')].id) = {}]_vars
    /\ [][pc = "stopped" =>
             /\ pc' = "stopped"
             /\ UNCHANGED <<delivered, pending, lastDelivered>>]_vars
    /\ [](\A r \in db \cup txdb : r.message_id \in DeliveredIds)

\* C11 witness: the worker has returned, a POST /messages sent after the
\* stop was answered 200, and its entry is in the stream without a row.
C11_Witness ==
    /\ pc = "stopped"
    /\ resp.op = "sendMessage"
    /\ resp.code = 200
    /\ Len(log) > stopLen
    /\ log[Len(log)].message_id = resp.id
    /\ log[Len(log)].id \notin DeliveredIds
    /\ RowsOf(db, log[Len(log)].id) = {}

\* The status values in the order sent < delivered < read.
Rank(status) ==
    CASE status = "sent" -> 1
      [] status = "delivered" -> 2
      [] status = "read" -> 3
      [] OTHER -> 0

\* C12: no step moves the status of a row, as the session on conn sees it,
\* backwards in the order sent < delivered < read.
C12_StatusNeverBackwards ==
    [][\A r \in View : \A q \in View' :
          q.message_id = r.message_id => Rank(q.status) >= Rank(r.status)]_vars

\* C13: every record GET /messages returns carries the status of its row;
\* stated for a response computed while no transaction is open, so that
\* the rows read are committed ones.
C13_GetReturnsRowStatus ==
    (resp.op = "getMessages" /\ resp.code = 200 /\ ~txOpen) =>
        \A m \in resp.body :
            \E r \in db : r.message_id = m.message_id /\ m.status = r.status

\* C14: a PATCH /messages/{id}/read that reaches the store answers 404 and
\* changes nothing when no row has the id, and otherwise answers 200 and
\* sets that row, and no other, to read = TRUE, status 'read'; a later
\* GET /messages returns such a row with read = true and status 'read'.
C14_ReadMarksRowAndGetReflects ==
    /\ [][(resp'.op = "markMessageAsRead" /\ resp'.code \in {200, 404}) =>
             LET hit == RowsOf(View, resp'.id) IN
               /\ hit = {} => resp'.code = 404 /\ UNCHANGED storeVars
               /\ hit # {} =>
                     /\ resp'.code = 200
                     /\ View' = (View \ hit) \cup
                           {[r EXCEPT !.read = TRUE, !.status = "read"]
                              : r \in hit}]_vars
    /\ []((resp.op = "getMessages" /\ resp.code = 200 /\ ~txOpen) =>
            \A m \in resp.body : \A r \in db :
                (r.message_id = m.message_id /\ r.status = "read") =>
                    m.read = TRUE /\ m.status = "read")

\* C15: PUT /messages/{id}/delivered answers 200 unless the statement
\* fails (500, store unchanged); answered 200, it has set to 'delivered'
\* exactly the rows with that id whose status was 'sent' and has left the
\* store unchanged when there was none (no such row, or a row that is
\* 'delivered' or 'read').
C15_DeliveredOnlyFromSent ==
    [][resp'.op = "markMessageAsDelivered" =>
          LET hit == {r \in RowsOf(View, resp'.id) : r.status = "sent"} IN
            /\ resp'.code \in {200, 500}
            /\ resp'.code = 500 => UNCHANGED storeVars
            /\ resp'.code = 200 =>
                  /\ View' = (View \ hit) \cup
                        {[r EXCEPT !.status = "delivered"] : r \in hit}
                  /\ hit = {} => UNCHANGED storeVars
                  /\ \A r \in View \ hit : r \in View']_vars

\* C15 witness: a PUT answered 200 found the row 'sent' (inserted by the
\* worker, not yet updated) and made it 'delivered'.
C15_Witness ==
    /\ resp.op = "markMessageAsDelivered"
    /\ resp.code = 200
    /\ resp.rows = 1
    /\ \E r \in RowsOf(View, resp.id) : r.status = "delivered"

\* C16: a DELETE /messages/{id} that reaches the store answers 200 and
\* removes the row when one has the id, and answers 404 and changes
\* nothing when none has; a DELETE of an id whose DELETE was answered 200
\* before answers 404 and changes nothing (a row is inserted once per
\* stream entry, so no insert of the id lies in between).
C16_SecondDeleteNotFound ==
    [][(resp'.op = "deleteMessage" /\ resp'.code \in {200, 404}) =>
          LET hit == RowsOf(View, resp'.id) IN
            /\ hit # {} => resp'.code = 200 /\ View' = View \ hit
            /\ hit = {} => resp'.code = 404 /\ UNCHANGED storeVars
            /\ resp'.id \in deleted =>
                  resp'.code = 404 /\ UNCHANGED storeVars]_vars

\* C17: the worker reaches XAck only by a successful COMMIT of the
\* transaction of the entry it is processing; an entry leaves the pending
\* list only by the XAck of that cycle; so an acknowledged entry is never
\* one whose persistence failed, and its row is committed unless a request
\* handler modified or deleted it.
C17_AckOnlyAfterCommit ==
    /\ [][(pc' = "ack" /\ pc # "ack") =>
             /\ pc = "commit"
             /\ txOpen /\ ~txOpen'
             /\ db' = txdb
             /\ cur' = cur
             /\ MessageID(cur) \notin failed']_vars
    /\ [][\A id \in pending \ pending' :
             /\ pc = "ack"
             /\ id = MessageID(cur)
             /\ wlog' = WLog("Message ACKed", id)]_vars
    /\ [](\A id \in DeliveredIds \ pending :
             /\ id \notin failed
             /\ id \notin touched => RowsOf(db, id) # {})

\* C17 witness: one entry was committed and acknowledged while another
\* entry, whose persistence failed, stays unacknowledged.
C17_Witness ==
    /\ wlog.msg = "Message ACKed"
    /\ wlog.id \notin pending
    /\ RowsOf(db, wlog.id) # {}
    /\ \E id \in failed : id \in pending /\ id # wlog.id

\* C18: once quit is closed, the worker goroutine eventually returns
\* (or the process has exited).
C18_StopEventuallyStops ==
    (quit = "closed") ~> (pc \in {"stopped", "exited"})

\* The positions that follow a position of the unit of work.
CycleSuccessors(p) ==
    CASE p = "begin" -> {"insert", "select"}
      [] p = "insert" -> {"update", "select"}
      [] p = "update" -> {"commit", "select"}
      [] p = "commit" -> {"ack", "select"}
      [] p = "ack" -> {"select"}
      [] OTHER -> {}

\* C19: closing quit changes nothing of the worker, the store or the
\* pending list; the worker returns only from the select at the top of the
\* loop, with no transaction open; from a position inside the unit of work
\* it moves only to the next statement or, the entry failed or
\* acknowledged, back to the select, and with quit closed its next
\* statement can still be executed.
C19_StopNeverAbortsCycle ==
    /\ [][quit' # quit => UNCHANGED <<workerVars, storeVars, pending>>]_vars
    /\ [][(pc' = "stopped" /\ pc # "stopped") =>
             pc = "select" /\ quit = "closed" /\ ~txOpen]_vars
    /\ [][(InCycle /\ pc' # pc) =>
             /\ pc' \in CycleSuccessors(pc)
             /\ cur' = cur
             /\ pc' = "select" =>
                   /\ ~txOpen'
                   /\ \/ MessageID(cur) \in failed'
                      \/ pc = "ack"]_vars
    /\ []((quit = "closed" /\ InCycle) =>
            /\ pc = "begin" => ENABLED Begin(TRUE)
            /\ pc = "insert" => ENABLED Insert(TRUE)
            /\ pc = "update" => ENABLED Update(TRUE)
            /\ pc = "commit" => ENABLED Commit(TRUE)
            /\ pc = "ack" => ENABLED XAck(TRUE))
    /\ [](pc = "stopped" => ~txOpen)

\* C19 witness: POST /stop-redis was answered 200 while the worker was
\* between its INSERT and its UPDATE, the transaction open.
C19_Witness ==
    /\ resp.op = "stopWorker"
    /\ resp.code = 200
    /\ quit = "closed"
    /\ pc = "update"
    /\ txOpen
    /\ RowsOf(txdb, MessageID(cur)) # {}

\* C20: the end of the worker's transaction without commit (tx.Rollback, or
\* a failed COMMIT) undoes nothing but the worker's own statements: the
\* rows of all other entries are after it what the session saw before it,
\* so no handler's write is lost.
C20_RollbackUndoesNoHandlerWrite ==
    [][(txOpen /\ ~txOpen' /\ pc' = "select") =>
          {r \in db' : r.message_id # MessageID(cur)} =
              {r \in View : r.message_id # MessageID(cur)}]_vars

\* C21: an acknowledged entry (delivered, no longer pending) was delivered
\* exactly once; the committed table holds at most one row per entry, and
\* the COMMIT of a cycle is the first for its entry: the entry was
\* delivered once and no committed row of it exists before.
C21_AckedEntryConsumedOnce ==
    /\ [](\A id \in DeliveredIds \ pending : Deliveries(id) = 1)
    /\ [](\A id \in EntryIds : Cardinality(RowsOf(db, id)) <= 1)
    /\ [][(pc = "commit" /\ pc' = "ack") =>
             /\ Deliveries(MessageID(cur)) = 1
             /\ RowsOf(db, MessageID(cur)) = {}
             /\ Cardinality(RowsOf(db', MessageID(cur))) <= 1]_vars

\* C21 witness: two entries were delivered, committed and acknowledged, and
\* the worker is polling again.
C21_Witness ==
    /\ Len(delivered) = 2
    /\ Cardinality(DeliveredIds \ pending) = 2
    /\ Cardinality(db) = 2
    /\ pc = "read"

\* The stream entry with the given entry id.
EntryOf(id) == CHOOSE e \in {log[n] : n \in DOMAIN log} : e.id = id

\* C22: a row appears in the committed table only by the successful COMMIT
\* of the cycle of its entry; no step of a handler adds a row, to the
\* committed table or to the session's view; every row belongs to an entry
\* of the stream that was delivered to the worker and whose persistence
\* did not fail, and carries that entry's sender, receiver and content.
C22_RowsOnlyFromCommittedCycles ==
    /\ [][\A r \in db' :
             RowsOf(db, r.message_id) = {} =>
                 /\ pc = "commit" /\ pc' = "ack"
                 /\ r.message_id = MessageID(cur)]_vars
    /\ [][resp' # NoResp =>
             \A r \in db' \cup txdb' :
                 RowsOf(db \cup txdb, r.message_id) # {}]_vars
    /\ [](\A r \in db :
             /\ r.message_id \in EntryIds
             /\ r.message_id \in DeliveredIds \ failed
             /\ LET e == EntryOf(r.message_id) IN
                  /\ r.sender_id = e.sender_id
                  /\ r.receiver_id = e.receiver_id
                  /\ r.content = e.content)

\* C22 witness: the first entry has its committed row, and a second entry,
\* just appended by a POST /messages answered 200, has none.
C22_Witness ==
    /\ Len(log) = 2
    /\ RowsOf(db, log[1].id) # {}
    /\ RowsOf(db \cup txdb, log[2].id) = {}
    /\ resp.op = "sendMessage"
    /\ resp.code = 200

\* Position in the stream of the entry with the given entry id.
PositionOf(id) == id[2]

\* C23: XReadGroup returns an entry only to a worker that is polling, with
\* no transaction open and no entry in processing; the entries are
\* delivered in the order of their positions in the stream; the rows of
\* the open transaction that are not committed belong to the one entry
\* being processed.
C23_OneAtATimeInAppendOrder ==
    /\ [][delivered' # delivered =>
             /\ pc = "read" /\ pc' = "begin"
             /\ ~txOpen
             /\ delivered' = Append(delivered, MessageID(cur'))]_vars
    /\ [](\A i, j \in DOMAIN delivered :
             i < j => PositionOf(delivered[i]) < PositionOf(delivered[j]))
    /\ [](InCycle =>
             /\ MessageID(cur) = delivered[Len(delivered)]
             /\ \A id \in pending \ {MessageID(cur)} :
                    id \in failed \cup AckFailed)
    /\ [](\A r \in txdb :
             RowsOf(db, r.message_id) = {} => r.message_id = MessageID(cur))

\* C23 witness: the second entry is in processing, its row inserted, after
\* the first entry's cycle has ended.
C23_Witness ==
    /\ delivered = <<StreamId(1), StreamId(2)>>
    /\ pc = "update"
    /\ MessageID(cur) = StreamId(2)
    /\ RowsOf(txdb, StreamId(2)) # {}
    /\ RowsOf(db, StreamId(1)) # {}

\* C24: a failed XAck, which follows a successful COMMIT, leaves the store
\* as it is (the committed row is kept), leaves the entry pending, and the
\* worker goes on to the next iteration; the entry is not delivered or
\* inserted again, and its row stays unless a request handler deletes it.
C24_AckFailureKeepsRow ==
    /\ [][wlog'.msg = "Failed to ACK message" =>
             /\ pc = "ack" /\ pc' = "select"
             /\ wlog'.id = MessageID(cur)
             /\ UNCHANGED <<storeVars, pending, delivered, failed>>
             /\ wlog'.id \in pending'
             /\ wlog'.id \notin touched => RowsOf(db', wlog'.id) # {}]_vars
    /\ [](\A id \in AckFailed :
             /\ Deliveries(id) = 1
             /\ id \notin failed
             /\ id \notin touched => RowsOf(db, id) # {})

\* C24 witness: XAck has just failed for an entry whose row is committed
\* with status 'delivered'.
C24_Witness ==
    /\ wlog.msg = "Failed to ACK message"
    /\ wlog.id \in pending
    /\ DeliveredUnread(wlog.id)
    /\ pc = "select"

\* C25: after a persistence failure, whenever the worker is between two
\* cycles and an entry is in the stream behind the group's position, the
\* worker eventually takes up an entry that has not failed (by the stream
\* order, the oldest one waiting), unless quit is closed or the process
\* has exited.  Repeated, this reaches every entry appended after the
\* failure.
C25_FailureDoesNotStopWorker ==
    (failed # {} /\ lastDelivered < Len(log) /\ ~InCycle) ~>
        \/ InCycle /\ MessageID(cur) \notin failed
        \/ quit = "closed"
        \/ pc = "exited"

\* C25 witness: the first entry failed, and the second entry has been read
\* and committed after it.
C25_Witness ==
    /\ StreamId(1) \in failed
    /\ delivered = <<StreamId(1), StreamId(2)>>
    /\ RowsOf(db, StreamId(2)) # {}
    /\ quit = "open"

\* C26: the worker leaves its start position either to the polling loop,
\* the group existing from then on, and if the group existed before its
\* position, its pending list and the stream are as they were; or, on
\* another error, to the exit of the process with Redis unchanged.  Before
\* the polling loop and after the exit no entry has been read and no row
\* written, and the exit is final.
C26_GroupCreateIdempotent ==
    /\ [][(pc = "start" /\ pc' # "start") =>
             \/ /\ pc' = "select"
                /\ groupCreated'
                /\ UNCHANGED <<log, pending, delivered>>
                /\ groupCreated => lastDelivered' = lastDelivered
             \/ /\ pc' = "exited"
                /\ UNCHANGED redisVars]_vars
    /\ [][pc = "exited" => pc' = "exited" /\ UNCHANGED redisVars]_vars
    /\ [](pc \in {"start", "exited"} =>
             delivered = << >> /\ pending = {} /\ db = {} /\ ~txOpen)

\* C26 witness: the group existed, an entry was appended before the worker
\* called XGroupCreateMkStream, and the worker proceeds to the polling loop
\* with the group's position still before that entry.
C26_Witness ==
    /\ wlog.msg = "Starting Redis stream worker..."
    /\ pc = "select"
    /\ groupCreated
    /\ Len(log) >= 1
    /\ lastDelivered = 0

\* C27: every entry of the stream is eventually returned to the worker by
\* XReadGroup, unless quit is closed or the worker has returned or the
\* process has exited.
C27_EveryEntryDelivered ==
    \A n \in 1..MaxMsgs :
        (n <= Len(log)) ~>
            \/ StreamId(n) \in DeliveredIds
            \/ quit = "closed"
            \/ pc \in {"stopped", "exited"}

\* C28: no committed row has status 'sent', and no PUT
\* /messages/{id}/delivered finds a row with status 'sent' to change.
C28_NoSentRowVisible ==
    /\ \A r \in db : r.status \in {"delivered", "read"}
    /\ resp.op = "markMessageAsDelivered" => resp.rows = 0

\* C29: in every committed row, read is true exactly if status is 'read'.
C29_ReadIffStatusRead ==
    \A r \in db : r.read <=> r.status = "read"

====
